---- MODULE Spec2Model ----
(***************************************************************************)
(* universal_mcp_linkedin: LinkedinApp, a request/response adapter over    *)
(* the LinkedIn REST API (src/src/universal_mcp_linkedin/app.py).          *)
(*                                                                         *)
(* Every invocation of one of the four tools runs through the positions    *)
(*   idle -> call -> wait -> handle -> done -> idle                        *)
(* "call": the method has built its url and request_body_data and is about *)
(* to call self._post/_get/_delete; "wait": the request is on the wire;    *)
(* "handle": the response object has been returned to the method; "done":  *)
(* the method has returned a value or raised.                              *)
(*                                                                         *)
(* Python values: a str is a TLA+ string; a URN is a sequence of tokens    *)
(* (so that quote() can work on its characters); a dict is a function      *)
(* with a string domain; a list is a sequence; an argument that is omitted *)
(* or passed as None is a key absent from the keyword mapping kw.          *)
(***************************************************************************)
EXTENDS Naturals, Sequences, FiniteSets, TLC

VARIABLES
    integration,  \* self.integration: attached or not, and what get_credentials() yields
    base_url,     \* self.base_url
    callers,      \* the external callers (threads) that invoke tools on the one instance
    pc,           \* pc[t]: position of caller t's invocation
    inv,          \* inv[t]: the operation t invoked and its keyword arguments
    frame,        \* frame[f]: the locals url, request_body_data, response of a call frame
    wire,         \* wire[t]: the request t's invocation put on the wire
    reply,        \* reply[t]: the response the remote API sent to that request
    nreq,         \* nreq[t]: HTTP requests issued by t's invocation so far
    effect,       \* effect[t]: the remote API accepted the write of t's request
    seen,         \* seen[t]: self.integration as _get_headers found it in t's invocation
    outcome       \* outcome[t]: what the invocation returned or raised

vars == <<integration, base_url, callers, pc, inv, frame, wire, reply, nreq, effect, seen,
          outcome>>

----------------------------------------------------------------------------
(* Bounds *)

\* Number of callers that may run tools concurrently on the instance.
NThreads == 2
\* Longest post_urn, in tokens.
MaxUrnLen == 2
\* Cap on the per-invocation request counter (the code issues one).
MaxRequests == 2

Threads == 1..NThreads

----------------------------------------------------------------------------
(* Python values *)

\* Python's None; no modelled string value equals it.
None == "None"

EmptyDict == [k \in {} |-> None]

\* d[k] = v
Put(d, k, v) == [y \in (DOMAIN d) \cup {k} |-> IF y = k THEN v ELSE d[y]]

\* d.get(k)
Get(d, k) == IF k \in DOMAIN d THEN d[k] ELSE None

\* an optional argument was given a value other than None
Supplied(kw, name) == name \in DOMAIN kw

\* the value of a parameter: the one supplied, or the signature's default
Arg(kw, name, default) == IF name \in DOMAIN kw THEN kw[name] ELSE default

\* `not v` for v a str or None
Falsy(v) == v = None \/ v = ""

Return(v) == [kind |-> "return", value |-> v, decoder |-> FALSE]

ValueError(m) == [kind |-> "raise", exc |-> "ValueError", msg |-> m, decoder |-> FALSE]

\* a failed dict lookup d[k]
KeyError(k) == [kind |-> "raise", exc |-> "KeyError", msg |-> k, decoder |-> FALSE]

NoOutcome == [kind |-> "none"]

----------------------------------------------------------------------------
(* urllib.parse.quote(post_urn, safe='') *)

UrnTokens == {"a", ":", "/"}

RECURSIVE SeqsUpTo(_, _)
SeqsUpTo(S, n) ==
    IF n = 0 THEN {<<>>}
    ELSE LET shorter == SeqsUpTo(S, n - 1)
         IN  shorter \cup {Append(s, c) : s \in shorter, c \in S}

Urns == SeqsUpTo(UrnTokens, MaxUrnLen)

\* Unreserved characters stay; with safe='' every other character is escaped.
QuoteToken(c) ==
    CASE c = "a" -> <<"a">>
      [] c = ":" -> <<"%3A">>
      [] c = "/" -> <<"%2F">>

RECURSIVE quote(_)
quote(s) == IF s = <<>> THEN <<>> ELSE QuoteToken(Head(s)) \o quote(Tail(s))

----------------------------------------------------------------------------
(* Credentials and headers *)

Token == "tok"

PrebuiltHeaders == [Authorization |-> "Basic xyz"]

\* What get_credentials() yields: a mapping with a pre-built `headers`
\* entry, with an `access_token`, or with both.
CredentialStates ==
    { [headers |-> PrebuiltHeaders],
      [access_token |-> Token],
      [headers |-> PrebuiltHeaders, access_token |-> Token] }

NoIntegration == [attached |-> FALSE, credentials |-> EmptyDict]

IntegrationStates ==
    {NoIntegration} \cup {[attached |-> TRUE, credentials |-> c] : c \in CredentialStates}

DefaultHeaders(credentials) ==
    ("Authorization" :> ("Bearer " \o credentials["access_token"]))
    @@ ("X-Restli-Protocol-Version" :> "2.0.0")
    @@ ("Content-Type" :> "application/json")
    @@ ("LinkedIn-Version" :> "202507")

\* Variant: the default headers are merged into a pre-built header mapping.
_get_headers_merged(integ) ==
    IF ~integ.attached
    THEN ValueError("Integration not found")
    ELSE LET credentials == integ.credentials
         IN  IF "headers" \in DOMAIN credentials
             THEN Return(credentials["headers"]
                         @@ ("X-Restli-Protocol-Version" :> "2.0.0")
                         @@ ("Content-Type" :> "application/json")
                         @@ ("LinkedIn-Version" :> "202507"))
             ELSE IF "access_token" \in DOMAIN credentials
             THEN Return(DefaultHeaders(credentials))
             ELSE KeyError("access_token")

_get_headers(integ) ==
    IF ~integ.attached
    THEN ValueError("Integration not found")
    ELSE LET credentials == integ.credentials
         IN  IF "headers" \in DOMAIN credentials
             THEN Return(credentials["headers"])
             ELSE IF "access_token" \in DOMAIN credentials
             THEN Return(DefaultHeaders(credentials))
             ELSE KeyError("access_token")

----------------------------------------------------------------------------
(* The remote API's responses *)

Statuses == {200, 204, 301, 404}

RestliIds == {"urn:li:share:999"}

ResponseHeaders ==
    {EmptyDict, [h \in {"x-restli-id"} |-> ""]}
    \cup {[h \in {"x-restli-id"} |-> id] : id \in RestliIds}

ResponseBodies == {EmptyDict, [message |-> "text"]}

Responses == [status_code : Statuses, headers : ResponseHeaders, body : ResponseBodies]

NoResponse == [status_code |-> 0, headers |-> EmptyDict, body |-> EmptyDict]

Is2xx(status) == status >= 200 /\ status <= 299

\* APIApplication._handle_response: the decoded body of a 2xx response,
\* an HTTP error carrying status code and body for any other status.
_handle_response(response) ==
    IF Is2xx(response.status_code)
    THEN [kind |-> "return", value |-> response.body, decoder |-> TRUE]
    ELSE [kind |-> "raise", exc |-> "HTTPStatusError",
          status |-> response.status_code, body |-> response.body, decoder |-> TRUE]

\* The remote API applies a write exactly when it answers with a 2xx status.
RemoteApplies(method, response) ==
    method \in {"POST", "DELETE"} /\ Is2xx(response.status_code)

----------------------------------------------------------------------------
(* create_post *)

DefaultDistribution ==
    [feedDistribution |-> "MAIN_FEED",
     targetEntities |-> <<>>,
     thirdPartyDistributionChannels |-> <<>>]

\* Variant: the default distribution is sent whatever the caller supplied.
create_post_body_default_only(kw) ==
    [author |-> kw["author"],
     commentary |-> kw["commentary"],
     visibility |-> Arg(kw, "visibility", "PUBLIC"),
     distribution |-> DefaultDistribution,
     lifecycleState |-> Arg(kw, "lifecycle_state", "PUBLISHED"),
     isReshareDisabledByAuthor |-> Arg(kw, "is_reshare_disabled", FALSE)]

create_post_body(kw) ==
    LET distribution == IF Supplied(kw, "distribution")
                        THEN kw["distribution"]
                        ELSE DefaultDistribution
    IN  [author |-> kw["author"],
         commentary |-> kw["commentary"],
         visibility |-> Arg(kw, "visibility", "PUBLIC"),
         distribution |-> distribution,
         lifecycleState |-> Arg(kw, "lifecycle_state", "PUBLISHED"),
         isReshareDisabledByAuthor |-> Arg(kw, "is_reshare_disabled", FALSE)]

create_post_locals(base, kw) ==
    [url |-> <<base, "/rest/posts">>,
     request_body_data |-> create_post_body(kw),
     response |-> NoResponse]

\* Variant: only an absent header is rejected, an empty one is accepted.
create_post_finish_none_only(kw, response) ==
    LET handled == _handle_response(response)
        post_id == Get(response.headers, "x-restli-id")
    IN  IF handled.kind = "raise" THEN handled
        ELSE IF post_id = None
             THEN [ValueError("x-restli-id header not found in response")
                      EXCEPT !.decoder = TRUE]
             ELSE [kind |-> "return",
                   value |-> [post_urn |-> post_id,
                              post_url |-> "https://www.linkedin.com/feed/update/" \o post_id],
                   decoder |-> TRUE]

\* Variant: the header is looked at before the status.
create_post_finish_header_first(kw, response) ==
    LET post_id == Get(response.headers, "x-restli-id")
    IN  IF Falsy(post_id)
        THEN ValueError("x-restli-id header not found in response")
        ELSE LET handled == _handle_response(response)
             IN  IF handled.kind = "raise" THEN handled
                 ELSE [kind |-> "return",
                       value |-> [post_urn |-> post_id,
                                  post_url |-> "https://www.linkedin.com/feed/update/" \o post_id],
                       decoder |-> TRUE]

\* Variant: a missing header is reported as an HTTP error.
create_post_finish_http_error(kw, response) ==
    LET handled == _handle_response(response)
        post_id == Get(response.headers, "x-restli-id")
    IN  IF handled.kind = "raise" THEN handled
        ELSE IF Falsy(post_id)
             THEN [kind |-> "raise", exc |-> "HTTPStatusError",
                   status |-> response.status_code, body |-> response.body,
                   decoder |-> TRUE]
             ELSE [kind |-> "return",
                   value |-> [post_urn |-> post_id,
                              post_url |-> "https://www.linkedin.com/feed/update/" \o post_id],
                   decoder |-> TRUE]

create_post_finish(kw, response) ==
    LET handled == _handle_response(response)
        post_id == Get(response.headers, "x-restli-id")
    IN  IF handled.kind = "raise" THEN handled
        ELSE IF Falsy(post_id)
             THEN [ValueError("x-restli-id header not found in response")
                      EXCEPT !.decoder = TRUE]
             ELSE [kind |-> "return",
                   value |-> [post_urn |-> post_id,
                              post_url |-> "https://www.linkedin.com/feed/update/" \o post_id],
                   decoder |-> TRUE]

----------------------------------------------------------------------------
(* get_your_info *)

get_your_info_locals(base, kw) ==
    [url |-> <<base, "/v2/userinfo">>, response |-> NoResponse]

get_your_info_finish(kw, response) == _handle_response(response)

----------------------------------------------------------------------------
(* delete_post *)

delete_post_locals(base, kw) ==
    [url |-> <<base, "/rest/posts/">> \o quote(kw["post_urn"]), response |-> NoResponse]

\* Variant: the result carries the percent-encoded URN of the path.
delete_post_finish_quoted(kw, response) ==
    IF response.status_code = 204
    THEN Return([status |-> "deleted", post_urn |-> quote(kw["post_urn"])])
    ELSE _handle_response(response)

delete_post_finish(kw, response) ==
    IF response.status_code = 204
    THEN Return([status |-> "deleted", post_urn |-> kw["post_urn"]])
    ELSE _handle_response(response)

----------------------------------------------------------------------------
(* update_post *)

\* Variant: adContext is attached whether or not an ad field was supplied.
update_post_body_always_ad(kw) ==
    LET s0 == EmptyDict
        s1 == IF Supplied(kw, "commentary")
              THEN Put(s0, "commentary", kw["commentary"]) ELSE s0
        s2 == IF Supplied(kw, "content_call_to_action_label")
              THEN Put(s1, "contentCallToActionLabel", kw["content_call_to_action_label"])
              ELSE s1
        s3 == IF Supplied(kw, "content_landing_page")
              THEN Put(s2, "contentLandingPage", kw["content_landing_page"]) ELSE s2
        s4 == IF Supplied(kw, "lifecycle_state")
              THEN Put(s3, "lifecycleState", kw["lifecycle_state"]) ELSE s3
        a0 == EmptyDict
        a1 == IF Supplied(kw, "ad_context_name")
              THEN Put(a0, "dscName", kw["ad_context_name"]) ELSE a0
        a2 == IF Supplied(kw, "ad_context_status")
              THEN Put(a1, "dscStatus", kw["ad_context_status"]) ELSE a1
    IN  [patch |-> Put(Put(EmptyDict, "$set", s4), "adContext", Put(EmptyDict, "$set", a2))]

update_post_body(kw) ==
    LET s0 == EmptyDict
        s1 == IF Supplied(kw, "commentary")
              THEN Put(s0, "commentary", kw["commentary"]) ELSE s0
        s2 == IF Supplied(kw, "content_call_to_action_label")
              THEN Put(s1, "contentCallToActionLabel", kw["content_call_to_action_label"])
              ELSE s1
        s3 == IF Supplied(kw, "content_landing_page")
              THEN Put(s2, "contentLandingPage", kw["content_landing_page"]) ELSE s2
        s4 == IF Supplied(kw, "lifecycle_state")
              THEN Put(s3, "lifecycleState", kw["lifecycle_state"]) ELSE s3
        patch0 == Put(EmptyDict, "$set", s4)
        a0 == EmptyDict
        a1 == IF Supplied(kw, "ad_context_name")
              THEN Put(a0, "dscName", kw["ad_context_name"]) ELSE a0
        a2 == IF Supplied(kw, "ad_context_status")
              THEN Put(a1, "dscStatus", kw["ad_context_status"]) ELSE a1
        patch_data ==
            IF Supplied(kw, "ad_context_name") \/ Supplied(kw, "ad_context_status")
            THEN Put(patch0, "adContext", Put(EmptyDict, "$set", a2))
            ELSE patch0
    IN  [patch |-> patch_data]

update_post_locals(base, kw) ==
    [url |-> <<base, "/rest/posts/">> \o quote(kw["post_urn"]),
     request_body_data |-> update_post_body(kw),
     response |-> NoResponse]

update_post_finish(kw, response) ==
    IF response.status_code = 204
    THEN Return([status |-> "updated", post_urn |-> kw["post_urn"]])
    ELSE _handle_response(response)

----------------------------------------------------------------------------
(* The tools (list_tools) and their inputs *)

Ops == {"create_post", "get_your_info", "delete_post", "update_post"}

Method(op) ==
    CASE op = "create_post"   -> "POST"
      [] op = "get_your_info" -> "GET"
      [] op = "delete_post"   -> "DELETE"
      [] op = "update_post"   -> "POST"

\* The locals of the method when it reaches its request call.
Locals(op, base, kw) ==
    CASE op = "create_post"   -> create_post_locals(base, kw)
      [] op = "get_your_info" -> get_your_info_locals(base, kw)
      [] op = "delete_post"   -> delete_post_locals(base, kw)
      [] op = "update_post"   -> update_post_locals(base, kw)

\* What the method does with the response its request call returned.
Finish(op, kw, response) ==
    CASE op = "create_post"   -> create_post_finish(kw, response)
      [] op = "get_your_info" -> get_your_info_finish(kw, response)
      [] op = "delete_post"   -> delete_post_finish(kw, response)
      [] op = "update_post"   -> update_post_finish(kw, response)

CreateOptional == {"visibility", "distribution", "lifecycle_state", "is_reshare_disabled"}

CreateValue ==
    ("visibility" :> "CONNECTIONS")
    @@ ("distribution" :> [feedDistribution |-> "NONE", targetEntities |-> <<>>])
    @@ ("lifecycle_state" :> "DRAFT")
    @@ ("is_reshare_disabled" :> TRUE)

CreateRequired ==
    ("commentary" :> "Hello #world") @@ ("author" :> "urn:li:person:abc123")

UpdateOptional ==
    {"commentary", "content_call_to_action_label", "content_landing_page",
     "lifecycle_state", "ad_context_name", "ad_context_status"}

UpdateValue ==
    ("commentary" :> "edited")
    @@ ("content_call_to_action_label" :> "LEARN_MORE")
    @@ ("content_landing_page" :> "https://example.com")
    @@ ("lifecycle_state" :> "PUBLISHED")
    @@ ("ad_context_name" :> "campaign")
    @@ ("ad_context_status" :> "ACTIVE")

\* Every combination of supplied and omitted optional arguments.
AllInputs(op) ==
    CASE op = "create_post" ->
            {CreateRequired @@ [n \in S |-> CreateValue[n]] : S \in SUBSET CreateOptional}
      [] op = "get_your_info" -> {EmptyDict}
      [] op = "delete_post" -> {[post_urn |-> u] : u \in Urns}
      [] op = "update_post" ->
            {("post_urn" :> u) @@ [n \in S |-> UpdateValue[n]] :
                u \in Urns, S \in SUBSET UpdateOptional}

\* With several callers at once, each draws from a part of the inputs and
\* the remote API from a part of its responses.
FewInputs(op) ==
    CASE op = "create_post" -> {CreateRequired}
      [] op = "get_your_info" -> {EmptyDict}
      [] op = "delete_post" -> {[post_urn |-> <<"a", ":">>]}
      [] op = "update_post" ->
            {("post_urn" :> <<"a", "/">>)
             @@ [n \in {"commentary", "ad_context_status"} |-> UpdateValue[n]]}

FewResponses ==
    {r \in Responses :
        \/ r.status_code = 204 /\ r.headers # EmptyDict /\ r.body = EmptyDict
              /\ r.headers["x-restli-id"] # ""
        \/ r.status_code = 404 /\ r.headers = EmptyDict /\ r.body # EmptyDict}

Concurrent == Cardinality(callers) > 1

Inputs(op) == IF Concurrent THEN FewInputs(op) ELSE AllInputs(op)

RemoteResponses == IF Concurrent THEN FewResponses ELSE Responses

----------------------------------------------------------------------------
(* Invocations *)

\* Variant: the locals are kept in one place shared by all invocations.
FrameShared(t) == 1

\* Each invocation has its own call frame for its locals.
Frame(t) == t

\* Variant: a request that was answered with an error status is sent again.
AfterResponseRetry(op, response) ==
    IF Is2xx(response.status_code) THEN "handle" ELSE "call"

\* Where control goes once the request call has returned the response:
\* on to the method's handling of it, whatever the status.
AfterResponse(op, response) == "handle"

NoRequest == [method |-> "none"]

NoInvocation == [op |-> "none", kw |-> EmptyDict]

NoLocals == [url |-> <<>>, response |-> NoResponse]

\* The request the HTTP layer sends for the method's locals.
Request(op, locals, headers) ==
    LET r == [method |-> Method(op), url |-> locals.url,
              params |-> EmptyDict, headers |-> headers]
    IN  IF "request_body_data" \in DOMAIN locals
        THEN Put(r, "data", locals.request_body_data)
        ELSE r

InitWith(cs) ==
    /\ integration \in IntegrationStates
    /\ base_url = "https://api.linkedin.com"
    /\ callers = cs
    /\ pc = [t \in Threads |-> "idle"]
    /\ inv = [t \in Threads |-> NoInvocation]
    /\ frame = [t \in Threads |-> NoLocals]
    /\ wire = [t \in Threads |-> NoRequest]
    /\ reply = [t \in Threads |-> NoResponse]
    /\ nreq = [t \in Threads |-> 0]
    /\ effect = [t \in Threads |-> FALSE]
    /\ seen = [t \in Threads |-> NoIntegration]
    /\ outcome = [t \in Threads |-> NoOutcome]

\* One caller at a time.
Init == InitWith({1})

\* Several callers on the same instance.
InitConc == InitWith(Threads)

\* A caller invokes a tool; the method runs up to its request call.
Call(t) ==
    /\ t \in callers
    /\ pc[t] = "idle"
    /\ \E op \in Ops : \E kw \in Inputs(op) :
          /\ inv' = [inv EXCEPT ![t] = [op |-> op, kw |-> kw]]
          /\ frame' = [frame EXCEPT ![Frame(t)] = Locals(op, base_url, kw)]
    /\ pc' = [pc EXCEPT ![t] = "call"]
    /\ wire' = [wire EXCEPT ![t] = NoRequest]
    /\ reply' = [reply EXCEPT ![t] = NoResponse]
    /\ nreq' = [nreq EXCEPT ![t] = 0]
    /\ effect' = [effect EXCEPT ![t] = FALSE]
    /\ seen' = [seen EXCEPT ![t] = NoIntegration]
    /\ outcome' = [outcome EXCEPT ![t] = NoOutcome]
    /\ UNCHANGED <<integration, base_url, callers>>

\* self._post/_get/_delete: resolve the headers, then send the request.
\* A failure to resolve the headers ends the invocation with no request sent.
Send(t) ==
    /\ pc[t] = "call"
    /\ nreq[t] < MaxRequests
    /\ seen' = [seen EXCEPT ![t] = integration]
    /\ LET headers == _get_headers(integration)
       IN  IF headers.kind = "raise"
           THEN /\ outcome' = [outcome EXCEPT ![t] = headers]
                /\ pc' = [pc EXCEPT ![t] = "done"]
                /\ UNCHANGED <<wire, nreq>>
           ELSE /\ wire' = [wire EXCEPT ![t] =
                              Request(inv[t].op, frame[Frame(t)], headers.value)]
                /\ nreq' = [nreq EXCEPT ![t] = @ + 1]
                /\ pc' = [pc EXCEPT ![t] = "wait"]
                /\ UNCHANGED outcome
    /\ UNCHANGED <<integration, base_url, callers, inv, frame, reply, effect>>

\* The remote API answers; the request call returns the response object.
Receive(t) ==
    /\ pc[t] = "wait"
    /\ \E response \in RemoteResponses :
          /\ reply' = [reply EXCEPT ![t] = response]
          /\ effect' = [effect EXCEPT ![t] = @ \/ RemoteApplies(wire[t].method, response)]
          /\ frame' = [frame EXCEPT ![Frame(t)].response = response]
          /\ pc' = [pc EXCEPT ![t] = AfterResponse(inv[t].op, response)]
    /\ UNCHANGED <<integration, base_url, callers, inv, wire, nreq, seen, outcome>>

\* The method turns the response into its return value or its error.
Handle(t) ==
    /\ pc[t] = "handle"
    /\ outcome' = [outcome EXCEPT ![t] =
                      Finish(inv[t].op, inv[t].kw, frame[Frame(t)].response)]
    /\ pc' = [pc EXCEPT ![t] = "done"]
    /\ UNCHANGED <<integration, base_url, callers, inv, frame, wire, reply, nreq, effect,
                   seen>>

\* The caller has its result and may invoke again.
Done(t) ==
    /\ pc[t] = "done"
    /\ pc' = [pc EXCEPT ![t] = "idle"]
    /\ inv' = [inv EXCEPT ![t] = NoInvocation]
    /\ frame' = [frame EXCEPT ![Frame(t)] = NoLocals]
    /\ wire' = [wire EXCEPT ![t] = NoRequest]
    /\ reply' = [reply EXCEPT ![t] = NoResponse]
    /\ nreq' = [nreq EXCEPT ![t] = 0]
    /\ effect' = [effect EXCEPT ![t] = FALSE]
    /\ seen' = [seen EXCEPT ![t] = NoIntegration]
    /\ outcome' = [outcome EXCEPT ![t] = NoOutcome]
    /\ UNCHANGED <<integration, base_url, callers>>

\* The external integration refreshes the credentials it yields.
RefreshCredentials ==
    /\ integration.attached
    /\ \E c \in CredentialStates \ {integration.credentials} :
          integration' = [integration EXCEPT !.credentials = c]
    /\ UNCHANGED <<base_url, callers, pc, inv, frame, wire, reply, nreq, effect, seen,
                   outcome>>

Next ==
    \/ \E t \in Threads : Call(t) \/ Send(t) \/ Receive(t) \/ Handle(t) \/ Done(t)
    \/ RefreshCredentials

Spec == Init /\ [][Next]_vars

SpecConc == InitConc /\ [][Next]_vars

----------------------------------------------------------------------------
(* Properties *)

\* The invocation of t has put a request on the wire.
Sent(t) == pc[t] \in {"wait", "handle", "done"} /\ wire[t] # NoRequest

\* The invocation of t has resolved its headers, one way or the other.
Resolved(t) == pc[t] \in {"wait", "handle", "done"}

ConfigurationError == ValueError("Integration not found")

\* C1: _get_headers has three outcomes: a configuration error with no
\* integration attached; the credentials' `headers` entry, unmodified, when
\* there is one; otherwise exactly the four default headers, with
\* Authorization = "Bearer " + access_token.
C1_HeaderResolver ==
    \A t \in Threads : Resolved(t) =>
        IF ~seen[t].attached
        THEN pc[t] = "done" /\ outcome[t] = ConfigurationError /\ wire[t] = NoRequest
        ELSE IF "headers" \in DOMAIN seen[t].credentials
        THEN Sent(t) /\ wire[t].headers = seen[t].credentials["headers"]
        ELSE /\ Sent(t)
             /\ DOMAIN wire[t].headers =
                    {"Authorization", "X-Restli-Protocol-Version", "Content-Type",
                     "LinkedIn-Version"}
             /\ wire[t].headers["Authorization"] = "Bearer " \o seen[t].credentials["access_token"]
             /\ wire[t].headers["X-Restli-Protocol-Version"] = "2.0.0"
             /\ wire[t].headers["Content-Type"] = "application/json"
             /\ wire[t].headers["LinkedIn-Version"] = "202507"

\* A request went out under credentials holding both a `headers` entry and
\* an access_token, and carries the pre-built headers alone.
C1_Witness ==
    \E t \in Threads :
        /\ Sent(t)
        /\ DOMAIN seen[t].credentials = {"headers", "access_token"}
        /\ wire[t].headers = PrebuiltHeaders

PrimaryFields ==
    {"commentary", "content_call_to_action_label", "content_landing_page", "lifecycle_state"}

AdFields == {"ad_context_name", "ad_context_status"}

WireName ==
    ("commentary" :> "commentary")
    @@ ("content_call_to_action_label" :> "contentCallToActionLabel")
    @@ ("content_landing_page" :> "contentLandingPage")
    @@ ("lifecycle_state" :> "lifecycleState")
    @@ ("ad_context_name" :> "dscName")
    @@ ("ad_context_status" :> "dscStatus")

\* d holds exactly the fields of `fields` that kw supplies, under their
\* wire names and with the supplied values.
ExactlySupplied(d, kw, fields) ==
    /\ DOMAIN d = {WireName[n] : n \in fields \cap DOMAIN kw}
    /\ \A n \in fields \cap DOMAIN kw : d[WireName[n]] = kw[n]

\* C2: the body update_post emits is {"patch": P}; P["$set"] holds exactly
\* the supplied fields among the four primary ones; P has an adContext key
\* iff an ad field is supplied, and then adContext["$set"] holds exactly the
\* supplied ad fields, beside the primary "$set".
C2_UpdatePatch ==
    \A t \in Threads : (Sent(t) /\ inv[t].op = "update_post") =>
        LET kw == inv[t].kw
            body == wire[t].data
            P == body["patch"]
            hasAd == (AdFields \cap DOMAIN kw) # {}
        IN  /\ DOMAIN body = {"patch"}
            /\ DOMAIN P = IF hasAd THEN {"$set", "adContext"} ELSE {"$set"}
            /\ ExactlySupplied(P["$set"], kw, PrimaryFields)
            /\ hasAd => /\ DOMAIN P["adContext"] = {"$set"}
                        /\ ExactlySupplied(P["adContext"]["$set"], kw, AdFields)
            /\ DOMAIN kw = {"post_urn", "commentary"} =>
                    body = [patch |-> ("$set" :> [commentary |-> kw["commentary"]])]
            /\ DOMAIN kw = {"post_urn", "ad_context_status"} =>
                    body = [patch |->
                              ("$set" :> EmptyDict)
                              @@ ("adContext" :>
                                    ("$set" :> [dscStatus |-> kw["ad_context_status"]]))]

\* An update supplying only ad_context_status has been sent.
C2_Witness ==
    \E t \in Threads :
        /\ Sent(t)
        /\ inv[t].op = "update_post"
        /\ DOMAIN inv[t].kw = {"post_urn", "ad_context_status"}
        /\ wire[t].data["patch"]["$set"] = EmptyDict

\* C3: delete_post and update_post with an empty post_urn end in an error,
\* never in a returned mapping.
C3_EmptyUrnRejected ==
    \A t \in Threads :
        ( /\ pc[t] = "done"
          /\ inv[t].op \in {"delete_post", "update_post"}
          /\ inv[t].kw["post_urn"] = <<>> )
        => outcome[t].kind = "raise"

\* C4 as stated: a create_post or update_post that ended in an error left
\* nothing created or modified on the remote side.
C4_FailedCallNoRemoteEffect ==
    \A t \in Threads :
        ( /\ pc[t] = "done"
          /\ inv[t].op \in {"create_post", "update_post"}
          /\ outcome[t].kind = "raise" )
        => ~effect[t]

\* C4 as amended: a create_post or update_post that ended in a configuration
\* error or an HTTP error left nothing created or modified; a create_post
\* that ended in the missing-header error had its post accepted.
C4_ConfigOrHttpErrorNoRemoteEffect ==
    \A t \in Threads :
        ( /\ pc[t] = "done"
          /\ inv[t].op \in {"create_post", "update_post"}
          /\ outcome[t].kind = "raise" )
        => IF outcome[t] = ConfigurationError \/ outcome[t].exc = "HTTPStatusError"
           THEN ~effect[t]
           ELSE /\ inv[t].op = "create_post"
                /\ outcome[t].exc = "ValueError"
                /\ effect[t]

\* An update_post was refused by the remote API and ended in an HTTP error.
C4_Witness ==
    \E t \in Threads :
        /\ pc[t] = "done"
        /\ inv[t].op = "update_post"
        /\ outcome[t].kind = "raise"
        /\ outcome[t].exc = "HTTPStatusError"
        /\ ~effect[t]

FeedUpdatePrefix == "https://www.linkedin.com/feed/update/"

C6_NoContentIsSuccess ==
    \A t \in Threads :
        ( /\ pc[t] = "done"
          /\ inv[t].op \in {"delete_post", "update_post"}
          /\ Sent(t)
          /\ reply[t].status_code = 204 )
        => /\ outcome[t].kind = "return"
           /\ outcome[t].value =
                 [status |-> IF inv[t].op = "delete_post" THEN "deleted" ELSE "updated",
                  post_urn |-> inv[t].kw["post_urn"]]
           /\ ~outcome[t].decoder

\* A delete_post of a URN that percent-encoding changes got a 204 with a
\* non-empty body and returned.
C6_Witness ==
    \E t \in Threads :
        /\ pc[t] = "done"
        /\ inv[t].op = "delete_post"
        /\ reply[t].status_code = 204
        /\ reply[t].body # EmptyDict
        /\ inv[t].kw["post_urn"] = <<"a", ":">>
        /\ wire[t].url = <<base_url, "/rest/posts/", "a", "%3A">>
        /\ outcome[t].kind = "return"

\* C7: a response with a non-2xx status ends each of the four operations
\* in an HTTP error carrying the status code and the body; for create_post
\* whether or not x-restli-id is present.
C7_Non2xxIsHttpError ==
    \A t \in Threads :
        (pc[t] = "done" /\ Sent(t) /\ ~Is2xx(reply[t].status_code))
        => /\ outcome[t].kind = "raise"
           /\ outcome[t].exc = "HTTPStatusError"
           /\ outcome[t].status = reply[t].status_code
           /\ outcome[t].body = reply[t].body

\* A create_post got a non-2xx response without x-restli-id, and raised.
C7_Witness ==
    \E t \in Threads :
        /\ pc[t] = "done"
        /\ inv[t].op = "create_post"
        /\ reply[t].status_code = 404
        /\ reply[t].headers = EmptyDict
        /\ outcome[t].kind = "raise"

\* C8: with an integration attached, an invocation issues exactly one HTTP
\* request, never a second one, and ends only once that request's response
\* has been received.
C8_OneRequestPerInvocation ==
    \A t \in Threads :
        /\ nreq[t] <= 1
        /\ (pc[t] = "done" /\ integration.attached) =>
              /\ nreq[t] = 1
              /\ reply[t] \in Responses
        /\ pc[t] \in {"wait", "handle"} => nreq[t] = 1

\* An invocation ended in an HTTP error after its one request.
C8_Witness ==
    \E t \in Threads :
        /\ pc[t] = "done"
        /\ integration.attached
        /\ outcome[t].kind = "raise"
        /\ nreq[t] = 1

\* C9: whatever the interleaving of concurrent invocations, the request an
\* invocation sends is the one its own arguments and the credentials read
\* at that time give, its result is the one its own arguments and its own
\* response give, and base_url stays as constructed.
C9_InvocationsIndependent ==
    /\ base_url = "https://api.linkedin.com"
    /\ \A t \in Threads :
          /\ Sent(t) =>
                wire[t] = Request(inv[t].op,
                                  Locals(inv[t].op, "https://api.linkedin.com", inv[t].kw),
                                  _get_headers(seen[t]).value)
          /\ (pc[t] = "done" /\ Sent(t)) =>
                outcome[t] = Finish(inv[t].op, inv[t].kw, reply[t])

\* Two invocations of different tools overlap: one has ended while the
\* other, started before the first sent its request, still waits.
C9_Witness ==
    /\ pc[1] = "done"
    /\ pc[2] = "wait"
    /\ inv[1].op = "update_post"
    /\ inv[2].op = "create_post"
    /\ outcome[1].kind = "return"

\* C10: the body create_post emits has exactly six keys; distribution is
\* the supplied one, or the default {MAIN_FEED, [], []} when omitted;
\* visibility defaults to "PUBLIC", lifecycleState to "PUBLISHED" and
\* isReshareDisabledByAuthor to false.
C10_CreateBody ==
    \A t \in Threads : (Sent(t) /\ inv[t].op = "create_post") =>
        LET kw == inv[t].kw
            body == wire[t].data
        IN  /\ DOMAIN body =
                  {"author", "commentary", "visibility", "distribution",
                   "lifecycleState", "isReshareDisabledByAuthor"}
            /\ body["author"] = kw["author"]
            /\ body["commentary"] = kw["commentary"]
            /\ body["distribution"] =
                  IF "distribution" \in DOMAIN kw
                  THEN kw["distribution"]
                  ELSE [feedDistribution |-> "MAIN_FEED",
                        targetEntities |-> <<>>,
                        thirdPartyDistributionChannels |-> <<>>]
            /\ body["visibility"] =
                  IF "visibility" \in DOMAIN kw THEN kw["visibility"] ELSE "PUBLIC"
            /\ body["lifecycleState"] =
                  IF "lifecycle_state" \in DOMAIN kw THEN kw["lifecycle_state"]
                  ELSE "PUBLISHED"
            /\ body["isReshareDisabledByAuthor"] =
                  IF "is_reshare_disabled" \in DOMAIN kw THEN kw["is_reshare_disabled"]
                  ELSE FALSE

\* A create_post with only commentary and author has been sent.
C10_Witness ==
    \E t \in Threads :
        /\ Sent(t)
        /\ inv[t].op = "create_post"
        /\ DOMAIN inv[t].kw = {"commentary", "author"}
        /\ wire[t].data["distribution"]["feedDistribution"] = "MAIN_FEED"

====
